---- MODULE Spec2Model ----
(***************************************************************************)
(* space-apod: an HTTP gateway in front of the NASA APOD service.          *)
(*                                                                         *)
(* The repository holds two server programs:                               *)
(*   src/index.js          "plain"  : no cache, normalises the payload     *)
(*   src/unnamed/part_000  "cached" : a Map cache with a one hour TTL,     *)
(*                                    returns the upstream JSON as it is   *)
(* A deployment runs one of them; `variant` says which one.                *)
(*                                                                         *)
(* JavaScript values are records [t, s]: t is the type tag and s the       *)
(* string's characters (a tuple of one-character strings when the code     *)
(* looks inside the string, one opaque token otherwise).  An absent        *)
(* property reads as undefined, as in JavaScript.                          *)
(***************************************************************************)
EXTENDS Integers, Sequences, FiniteSets, TLC

VARIABLES variant, clock, apodCache, upstreamCalls, req, storedAt

vars == <<variant, clock, apodCache, upstreamCalls, req, storedAt>>

(***************************************************************************)
(* Bounds of the model                                                     *)
(***************************************************************************)
MaxReqs == 2
MaxTicks == 3
MaxCalls == 2

Reqs == 1..MaxReqs

(***************************************************************************)
(* JavaScript values                                                       *)
(***************************************************************************)
undefined == [t |-> "undefined", s |-> <<>>]

null == [t |-> "null", s |-> <<>>]

Str(chars) == [t |-> "string", s |-> chars]

\* JavaScript truthiness: undefined, null and "" are falsy
Truthy(v) == v.t = "string" /\ v.s # <<>>

\* a || b
Or(a, b) == IF Truthy(a) THEN a ELSE b

\* String.prototype.toLowerCase on the letters the model uses
LowerChar(c) ==
  CASE c = "G" -> "g"
    [] c = "I" -> "i"
    [] c = "F" -> "f"
    [] OTHER -> c

toLowerCase(chars) == [i \in 1..Len(chars) |-> LowerChar(chars[i])]

\* String.prototype.endsWith
endsWith(chars, suffix) ==
  /\ Len(chars) >= Len(suffix)
  /\ SubSeq(chars, Len(chars) - Len(suffix) + 1, Len(chars)) = suffix

DotGif == <<".", "g", "i", "f">>

(***************************************************************************)
(* The upstream service: statuses, payloads and response texts             *)
(***************************************************************************)
Statuses == {200, 400, 503}

\* Response.ok of node-fetch
ResOk(status) == status >= 200 /\ status < 300

IMAGE == <<"i", "m", "a", "g", "e">>
VIDEO == <<"v", "i", "d", "e", "o">>
OTHER_TYPE == <<"o", "t", "h", "e", "r">>

UrlJpg == <<"a", ".", "j", "p", "g">>
UrlGif == <<"a", ".", "G", "I", "F">>
HdJpg == <<"h", ".", "j", "p", "g">>
HdGif == <<"h", ".", "g", "i", "f">>
HdGifMixed == <<"h", ".", "G", "i", "F">>
HdNoDot == <<"h", "g", "i", "f">>

MediaTypes == {undefined, Str(IMAGE), Str(VIDEO), Str(OTHER_TYPE)}

Urls == {Str(UrlJpg), Str(UrlGif)}

HdUrls == {undefined, Str(HdJpg), Str(HdGif), Str(HdGifMixed), Str(HdNoDot)}

Copyrights == {undefined, Str(<<"c">>)}

\* the JSON objects the upstream answers a successful request with
Payloads ==
  [date : {Str(<<"d">>)}, title : {Str(<<"t">>)}, explanation : {Str(<<"e">>)},
   media_type : MediaTypes, url : Urls, hdurl : HdUrls, copyright : Copyrights]

ImagePayload ==
  [date |-> Str(<<"d">>), title |-> Str(<<"t">>), explanation |-> Str(<<"e">>),
   media_type |-> Str(IMAGE), url |-> Str(UrlJpg), hdurl |-> Str(HdJpg),
   copyright |-> undefined]

VideoPayload ==
  [date |-> Str(<<"d">>), title |-> Str(<<"t">>), explanation |-> Str(<<"e">>),
   media_type |-> Str(VIDEO), url |-> Str(UrlJpg), hdurl |-> undefined,
   copyright |-> Str(<<"c">>)]

\* the cached server does not look inside the payload: two distinct
\* payloads are enough to tell one upstream answer from another
CachedPayloads == {ImagePayload, VideoPayload}

\* the JSON object the upstream sends with an error status
UpstreamErrorObject == [code |-> Str(<<"400">>), msg |-> Str(<<"bad date">>)]

\* a response body: its raw text, and the value JSON.parse gives when the
\* text is JSON
JsonText(value) == [raw |-> <<"json">>, json |-> TRUE, value |-> value]

HtmlText == [raw |-> <<"<html>">>, json |-> FALSE, value |-> UpstreamErrorObject]

ErrorTexts == {JsonText(UpstreamErrorObject), HtmlText}

\* JSON.parse: the value, or a SyntaxError
JSONparse(text) ==
  IF text.json THEN [ok |-> TRUE, value |-> text.value]
  ELSE [ok |-> FALSE, value |-> text.value]

(***************************************************************************)
(* Query strings                                                           *)
(***************************************************************************)
TODAY == <<"t", "o", "d", "a", "y">>

DateOk == <<"2", "0", "2", "0", "-", "0", "7", "-", "1", "4">>
DateSlash == <<"2", "0", "2", "0", "/", "0", "7", "/", "1", "4">>
DateShort == <<"2", "0", "2", "0", "-", "7", "-", "1", "4">>
DateTrail == <<"2", "0", "2", "0", "-", "0", "7", "-", "1", "4", "Z">>
DateLead == <<"x", "2", "0", "2", "0", "-", "0", "7", "-", "1", "4">>

\* req.query.date: missing, empty, or a string
QueryDates ==
  {undefined, Str(<<>>), Str(DateOk), Str(DateSlash), Str(DateShort),
   Str(DateTrail), Str(DateLead)}

Digits == {"0", "1", "2", "3", "4", "5", "6", "7", "8", "9"}

\* \d{n} at position i: the position after the n digits, or 0 (no match)
RECURSIVE MatchDigits(_, _, _)
MatchDigits(chars, i, n) ==
  IF n = 0 THEN i
  ELSE IF i <= Len(chars) /\ chars[i] \in Digits
       THEN MatchDigits(chars, i + 1, n - 1)
       ELSE 0

\* a literal character at position i
MatchChar(chars, i, c) ==
  IF i # 0 /\ i <= Len(chars) /\ chars[i] = c THEN i + 1 ELSE 0

\* mutant: the pattern without its end anchor
DateRegexTestUnanchored(date) ==
  LET chars == date.s
      p1 == MatchDigits(chars, 1, 4)
      p2 == MatchChar(chars, p1, "-")
      p3 == IF p2 = 0 THEN 0 ELSE MatchDigits(chars, p2, 2)
      p4 == MatchChar(chars, p3, "-")
      p5 == IF p4 = 0 THEN 0 ELSE MatchDigits(chars, p4, 2)
  IN  p5 # 0

\* /^\d{4}-\d{2}-\d{2}$/.test(date)
DateRegexTest(date) ==
  LET chars == date.s
      p1 == MatchDigits(chars, 1, 4)
      p2 == MatchChar(chars, p1, "-")
      p3 == IF p2 = 0 THEN 0 ELSE MatchDigits(chars, p2, 2)
      p4 == MatchChar(chars, p3, "-")
      p5 == IF p4 = 0 THEN 0 ELSE MatchDigits(chars, p4, 2)
  IN  p5 # 0 /\ p5 = Len(chars) + 1

(***************************************************************************)
(* Requests                                                                *)
(*   pc: idle -> fetch (suspended at `await fetch(url)`)                   *)
(*            -> text  (suspended at `await res.text()`) -> done           *)
(*   out: the responses sent on the request's res object                   *)
(* History fields, read by no action:                                      *)
(*   via:   how the answer was produced (route, cache, upstream, error)    *)
(*   found: what the cache lookup found (absent, stale, fresh)             *)
(*   data:  the JSON value parsed from a successful upstream answer        *)
(***************************************************************************)
NoData ==
  [date |-> undefined, title |-> undefined, explanation |-> undefined,
   media_type |-> undefined, url |-> undefined, hdurl |-> undefined,
   copyright |-> undefined]

IdleReq ==
  [pc |-> "idle", route |-> "none", date |-> undefined, now |-> 0,
   status |-> 0, via |-> "none", found |-> "none", data |-> NoData,
   out |-> <<>>]

\* res.status(status).json(body)
Send(status, body) == [status |-> status, body |-> body]

ErrorBody(msg) == [error |-> Str(<<msg>>)]

\* the handler of request q has ended by sending `response`: its locals
\* (now, the upstream status) are gone, the request and its answer remain
Done(q, via, response) ==
  [pc |-> "done", route |-> q.route, date |-> q.date, now |-> 0,
   status |-> 0, via |-> via, found |-> q.found, data |-> NoData,
   out |-> Append(q.out, response)]

\* the same after a successful upstream answer whose parsed JSON is `data`
DoneWith(q, response, data) ==
  [Done(q, "upstream", response) EXCEPT !.data = data]

(***************************************************************************)
(* The cached server (src/unnamed/part_000)                                *)
(***************************************************************************)
CACHE_TTL_MS == 60 * 60 * 1000

\* the granularity of the model's clock, in milliseconds: three steps make
\* exactly one TTL
TickMs == 20 * 60 * 1000

MaxClock == MaxTicks * TickMs

\* const cacheKey = date || "today"
CacheKey(date) == Or(date, Str(TODAY))

\* mutant: the TTL taken in seconds
CacheFreshSeconds(cacheKey, now) ==
  /\ cacheKey \in DOMAIN apodCache
  /\ now - apodCache[cacheKey].fetchedAt < 60 * 60

\* mutant: an entry exactly one TTL old still counts as fresh
CacheFreshInclusive(cacheKey, now) ==
  /\ cacheKey \in DOMAIN apodCache
  /\ now - apodCache[cacheKey].fetchedAt <= CACHE_TTL_MS

\* cached && now - cached.fetchedAt < CACHE_TTL_MS
CacheFresh(cacheKey, now) ==
  /\ cacheKey \in DOMAIN apodCache
  /\ now - apodCache[cacheKey].fetchedAt < CACHE_TTL_MS

\* mutant: an entry is not replaced by one with an older fetchedAt
CacheSetKeepNewer(cacheKey, json, now) ==
  [k \in DOMAIN apodCache \cup {cacheKey} |->
     IF k = cacheKey /\ (k \notin DOMAIN apodCache \/ apodCache[k].fetchedAt <= now)
     THEN [data |-> json, fetchedAt |-> now] ELSE apodCache[k]]

\* mutant: the entry records its expiry time instead of its fetch time
CacheSetExpiry(cacheKey, json, now) ==
  [k \in DOMAIN apodCache \cup {cacheKey} |->
     IF k = cacheKey THEN [data |-> json, fetchedAt |-> now + CACHE_TTL_MS]
     ELSE apodCache[k]]

\* apodCache.set(cacheKey, { data: json, fetchedAt: now })
CacheSet(cacheKey, json, now) ==
  [k \in DOMAIN apodCache \cup {cacheKey} |->
     IF k = cacheKey THEN [data |-> json, fetchedAt |-> now] ELSE apodCache[k]]

\* errors: status 0 stands for an error object without a status property
\* (a FetchError, a SyntaxError), hasPayload for one with a payload property
NoStatusError ==
  [status |-> 0, hasPayload |-> FALSE, payload |-> UpstreamErrorObject]

\* mutant: an upstream error evicts the entry of the key
CachedFetchApodAfterTextEvict(cacheKey, now, status, text) ==
  IF ~ResOk(status)
  THEN [threw |-> TRUE,
        err |-> [status |-> status, hasPayload |-> TRUE,
                 payload |-> IF JSONparse(text).ok THEN JSONparse(text).value
                             ELSE [error |-> Str(text.raw)]],
        value |-> ImagePayload,
        cache |-> [k \in DOMAIN apodCache \ {cacheKey} |-> apodCache[k]]]
  ELSE IF ~JSONparse(text).ok
  THEN [threw |-> TRUE, err |-> NoStatusError, value |-> ImagePayload,
        cache |-> apodCache]
  ELSE [threw |-> FALSE, err |-> NoStatusError,
        value |-> JSONparse(text).value,
        cache |-> CacheSet(cacheKey, JSONparse(text).value, now)]

\* fetchApod from the resolution of res.text() to its end: the value it
\* returns or the error it throws, and the cache it leaves
CachedFetchApodAfterText(cacheKey, now, status, text) ==
  IF ~ResOk(status)
  THEN [threw |-> TRUE,
        err |-> [status |-> status, hasPayload |-> TRUE,
                 payload |-> IF JSONparse(text).ok THEN JSONparse(text).value
                             ELSE [error |-> Str(text.raw)]],
        value |-> ImagePayload,
        cache |-> apodCache]
  ELSE IF ~JSONparse(text).ok
  THEN [threw |-> TRUE, err |-> NoStatusError, value |-> ImagePayload,
        cache |-> apodCache]
  ELSE [threw |-> FALSE, err |-> NoStatusError,
        value |-> JSONparse(text).value,
        cache |-> CacheSet(cacheKey, JSONparse(text).value, now)]

\* the catch block of both routes:
\* res.status(err.status || 500).json(err.payload || { error: ... })
CachedCatch(err) ==
  Send(IF err.status # 0 THEN err.status ELSE 500,
       IF err.hasPayload THEN err.payload
       ELSE ErrorBody("Internal server error"))

\* fetchApod from its entry to its first await, and the route around it when
\* it returns without suspending.  NASA_API_KEY falls back to "DEMO_KEY", so
\* the guard `if (!NASA_API_KEY)` never throws.
CachedFetchApodCall(r, route, date) ==
  LET cacheKey == CacheKey(date)
      now == clock
  IN  IF CacheFresh(cacheKey, now)
      THEN /\ req' = [req EXCEPT ![r] =
                        Done([IdleReq EXCEPT !.route = route, !.date = date,
                                             !.found = "fresh"],
                             "cache", Send(200, apodCache[cacheKey].data))]
           /\ UNCHANGED <<apodCache, upstreamCalls, storedAt>>
      ELSE /\ upstreamCalls < MaxCalls
           /\ upstreamCalls' = upstreamCalls + 1
           /\ req' = [req EXCEPT ![r] =
                        [IdleReq EXCEPT
                           !.pc = "fetch", !.route = route, !.date = date,
                           !.now = now, !.via = "upstream",
                           !.found = IF cacheKey \in DOMAIN apodCache
                                     THEN "stale" ELSE "absent"]]
           /\ UNCHANGED <<apodCache, storedAt>>

\* a request answered by the route itself, before fetchApod
Reject(r, route, date, status, msg) ==
  /\ req' = [req EXCEPT ![r] =
               Done([IdleReq EXCEPT !.route = route, !.date = date],
                    "route", Send(status, ErrorBody(msg)))]
  /\ UNCHANGED <<apodCache, upstreamCalls, storedAt>>

\* app.get("/space/apod/today")
CachedToday(r) ==
  /\ variant = "cached"
  /\ req[r].pc \in {"idle", "done"}
  /\ CachedFetchApodCall(r, "today", undefined)
  /\ UNCHANGED <<variant, clock>>

\* app.get("/space/apod/date")
CachedDate(r) ==
  /\ variant = "cached"
  /\ req[r].pc \in {"idle", "done"}
  /\ \E date \in QueryDates :
       IF ~Truthy(date)
       THEN Reject(r, "date", date, 400, "Missing 'date' query parameter")
       ELSE IF ~DateRegexTest(date)
       THEN Reject(r, "date", date, 400, "Invalid date format. Use YYYY-MM-DD.")
       ELSE CachedFetchApodCall(r, "date", date)
  /\ UNCHANGED <<variant, clock>>

\* `await fetch(url)` settles: a response with a status, or a network failure
CachedFetchSettled(r) ==
  /\ variant = "cached"
  /\ req[r].pc = "fetch"
  /\ \/ \E status \in Statuses :
          req' = [req EXCEPT ![r].pc = "text", ![r].status = status]
     \/ req' = [req EXCEPT ![r] = Done(req[r], "error",
                                       CachedCatch(NoStatusError))]
  /\ UNCHANGED <<variant, clock, apodCache, upstreamCalls, storedAt>>

\* the texts a response of this status may carry
CachedTexts(status) ==
  IF ResOk(status)
  THEN {JsonText(p) : p \in CachedPayloads} \cup {HtmlText}
  ELSE ErrorTexts

\* `await res.text()` settles: the body's text, or a failure of the stream;
\* then the rest of fetchApod and of the route
CachedTextSettled(r) ==
  /\ variant = "cached"
  /\ req[r].pc = "text"
  /\ \/ \E text \in CachedTexts(req[r].status) :
          LET cacheKey == CacheKey(req[r].date)
              result == CachedFetchApodAfterText(cacheKey, req[r].now,
                                                 req[r].status, text)
          IN  /\ apodCache' = result.cache
              /\ storedAt' =
                   IF result.threw THEN storedAt
                   ELSE [k \in DOMAIN storedAt \cup {cacheKey} |->
                           IF k = cacheKey THEN clock ELSE storedAt[k]]
              /\ req' = [req EXCEPT ![r] =
                           IF result.threw
                           THEN Done(req[r], "error", CachedCatch(result.err))
                           ELSE DoneWith(req[r], Send(200, result.value),
                                         result.value)]
     \/ /\ req' = [req EXCEPT ![r] = Done(req[r], "error",
                                          CachedCatch(NoStatusError))]
        /\ UNCHANGED <<apodCache, storedAt>>
  /\ UNCHANGED <<variant, clock, upstreamCalls>>

\* Date.now() advances
Tick ==
  /\ variant = "cached"
  /\ clock + TickMs <= MaxClock
  /\ clock' = clock + TickMs
  /\ UNCHANGED <<variant, apodCache, upstreamCalls, req, storedAt>>

(***************************************************************************)
(* The plain server (src/index.js)                                         *)
(***************************************************************************)
\* mutant: the copyright copied without `|| null`
NormalizeNoNull(data) ==
  LET mediaType == Or(data.media_type, Str(IMAGE))
      hdUrl == Or(data.hdurl, data.url)
      isGif == Truthy(hdUrl) /\ endsWith(toLowerCase(hdUrl.s), DotGif)
  IN  IF mediaType = Str(IMAGE)
      THEN [date |-> data.date, title |-> data.title,
            explanation |-> data.explanation,
            copyright |-> data.copyright,
            mediaType |-> mediaType, source |-> Str(<<"nasa-apod">>),
            imageUrl |-> data.url,
            hdImageUrl |-> IF isGif THEN data.url ELSE hdUrl,
            gifUrl |-> IF isGif THEN hdUrl ELSE null]
      ELSE [date |-> data.date, title |-> data.title,
            explanation |-> data.explanation,
            copyright |-> data.copyright,
            mediaType |-> mediaType, source |-> Str(<<"nasa-apod">>),
            mediaUrl |-> data.url]

\* fetchApod from JSON.parse to its end: the normalised result
Normalize(data) ==
  LET mediaType == Or(data.media_type, Str(IMAGE))
      hdUrl == Or(data.hdurl, data.url)
      isGif == Truthy(hdUrl) /\ endsWith(toLowerCase(hdUrl.s), DotGif)
  IN  IF mediaType = Str(IMAGE)
      THEN [date |-> data.date, title |-> data.title,
            explanation |-> data.explanation,
            copyright |-> Or(data.copyright, null),
            mediaType |-> mediaType, source |-> Str(<<"nasa-apod">>),
            imageUrl |-> data.url,
            hdImageUrl |-> IF isGif THEN data.url ELSE hdUrl,
            gifUrl |-> IF isGif THEN hdUrl ELSE null]
      ELSE [date |-> data.date, title |-> data.title,
            explanation |-> data.explanation,
            copyright |-> Or(data.copyright, null),
            mediaType |-> mediaType, source |-> Str(<<"nasa-apod">>),
            mediaUrl |-> data.url]

\* errors: statusCode 0 stands for an error object without a statusCode
\* property (a FetchError, a SyntaxError)
NoStatusCodeError == [statusCode |-> 0]

\* fetchApod from the resolution of res.text() to its end: the value it
\* returns or the error it throws
PlainFetchApodAfterText(status, text) ==
  IF ~ResOk(status)
  THEN [threw |-> TRUE, err |-> [statusCode |-> status],
        value |-> Normalize(ImagePayload)]
  ELSE IF ~JSONparse(text).ok
  THEN [threw |-> TRUE, err |-> NoStatusCodeError,
        value |-> Normalize(ImagePayload)]
  ELSE [threw |-> FALSE, err |-> NoStatusCodeError,
        value |-> Normalize(JSONparse(text).value)]

\* the catch block of /space/apod/today
PlainTodayCatch(err) ==
  Send(502, ErrorBody("Failed to fetch APOD for today"))

\* the catch block of /space/apod/date
PlainDateCatch(err) ==
  IF err.statusCode = 400
  THEN Send(400, ErrorBody("No APOD available for this date. APOD images start at 1995-06-16."))
  ELSE Send(502, ErrorBody("Failed to fetch APOD for given date"))

PlainCatch(route, err) ==
  IF route = "today" THEN PlainTodayCatch(err) ELSE PlainDateCatch(err)

\* fetchApod from its entry to `await fetch(url)`
PlainFetchApodCall(r, route, date) ==
  /\ upstreamCalls < MaxCalls
  /\ upstreamCalls' = upstreamCalls + 1
  /\ req' = [req EXCEPT ![r] =
               [IdleReq EXCEPT !.pc = "fetch", !.route = route, !.date = date,
                               !.via = "upstream"]]
  /\ UNCHANGED <<apodCache, storedAt>>

\* app.get("/space/apod/today")
PlainToday(r) ==
  /\ variant = "plain"
  /\ req[r].pc \in {"idle", "done"}
  /\ PlainFetchApodCall(r, "today", undefined)
  /\ UNCHANGED <<variant, clock>>

\* app.get("/space/apod/date")
PlainDate(r) ==
  /\ variant = "plain"
  /\ req[r].pc \in {"idle", "done"}
  /\ \E date \in QueryDates :
       IF ~Truthy(date)
       THEN Reject(r, "date", date, 400,
                   "Missing required query parameter 'date' (YYYY-MM-DD)")
       ELSE PlainFetchApodCall(r, "date", date)
  /\ UNCHANGED <<variant, clock>>

\* `await fetch(url)` settles: a response with a status, or a network failure
PlainFetchSettled(r) ==
  /\ variant = "plain"
  /\ req[r].pc = "fetch"
  /\ \/ \E status \in Statuses :
          req' = [req EXCEPT ![r].pc = "text", ![r].status = status]
     \/ req' = [req EXCEPT ![r] =
                  Done(req[r], "error", PlainCatch(req[r].route, NoStatusCodeError))]
  /\ UNCHANGED <<variant, clock, apodCache, upstreamCalls, storedAt>>

\* the texts a response of this status may carry
PlainTexts(status) ==
  IF ResOk(status)
  THEN {JsonText(p) : p \in Payloads} \cup {HtmlText}
  ELSE ErrorTexts

\* `await res.text()` settles: the body's text, or a failure of the stream;
\* then the rest of fetchApod and of the route
PlainTextSettled(r) ==
  /\ variant = "plain"
  /\ req[r].pc = "text"
  /\ \/ \E text \in PlainTexts(req[r].status) :
          LET result == PlainFetchApodAfterText(req[r].status, text)
          IN  req' = [req EXCEPT ![r] =
                        IF result.threw
                        THEN Done(req[r], "error",
                                  PlainCatch(req[r].route, result.err))
                        ELSE DoneWith(req[r], Send(200, result.value),
                                      JSONparse(text).value)]
     \/ req' = [req EXCEPT ![r] =
                  Done(req[r], "error", PlainCatch(req[r].route, NoStatusCodeError))]
  /\ UNCHANGED <<variant, clock, apodCache, upstreamCalls, storedAt>>

(***************************************************************************)
(* The specification                                                       *)
(***************************************************************************)
Init ==
  /\ variant \in {"plain", "cached"}
  /\ clock = 0
  /\ apodCache = [k \in {} |-> [data |-> ImagePayload, fetchedAt |-> 0]]
  /\ storedAt = [k \in {} |-> 0]
  /\ upstreamCalls = 0
  /\ req = [r \in Reqs |-> IdleReq]

Next ==
  \/ \E r \in Reqs : CachedToday(r)
  \/ \E r \in Reqs : CachedDate(r)
  \/ \E r \in Reqs : CachedFetchSettled(r)
  \/ \E r \in Reqs : CachedTextSettled(r)
  \/ Tick
  \/ \E r \in Reqs : PlainToday(r)
  \/ \E r \in Reqs : PlainDate(r)
  \/ \E r \in Reqs : PlainFetchSettled(r)
  \/ \E r \in Reqs : PlainTextSettled(r)

Spec == Init /\ [][Next]_vars

(***************************************************************************)
(* Vocabulary of the properties                                            *)
(***************************************************************************)
\* request r enters its route handler in this step
StartStep(r) == req[r].pc \in {"idle", "done"} /\ req'[r] # req[r]

\* request r enters fetchApod in this step
CallStep(r) == StartStep(r) /\ req'[r].via # "route"

\* the handler of request r ends in this step after fetchApod suspended
EndStep(r) == req[r].pc \in {"fetch", "text"} /\ req'[r].pc = "done"

\* ... with fetchApod returning a value / throwing
SuccessStep(r) == EndStep(r) /\ req'[r].via = "upstream"

FailureStep(r) == EndStep(r) /\ req'[r].via = "error"

InFlight(q) == q.pc \in {"fetch", "text"}

\* the entry of key k passes the freshness test at time t
FreshAt(k, t) ==
  k \in DOMAIN apodCache /\ t - apodCache[k].fetchedAt < 60 * 60 * 1000

\* the entry of key k exists and fails the freshness test at time t
StaleAt(k, t) ==
  k \in DOMAIN apodCache /\ t - apodCache[k].fetchedAt >= 60 * 60 * 1000

\* the string matches YYYY-MM-DD, digit by digit
WellFormedDate(date) ==
  /\ date.t = "string"
  /\ Len(date.s) = 10
  /\ \A i \in {1, 2, 3, 4, 6, 7, 9, 10} : date.s[i] \in Digits
  /\ date.s[5] = "-"
  /\ date.s[8] = "-"

\* a URL ending in .gif, in any letter case
Animated(v) ==
  /\ v.t = "string"
  /\ Len(v.s) >= 4
  /\ v.s[Len(v.s) - 3] = "."
  /\ v.s[Len(v.s) - 2] \in {"g", "G"}
  /\ v.s[Len(v.s) - 1] \in {"i", "I"}
  /\ v.s[Len(v.s)] \in {"f", "F"}

\* the only response of a finished request
Response(q) == q.out[1]

(***************************************************************************)
(* C1: in the cached server, a call of fetchApod that finds a fresh entry  *)
(* for its key (now - fetchedAt < TTL) is answered with exactly the data   *)
(* of that entry, makes no upstream call, and leaves the cache unchanged.  *)
(***************************************************************************)
C1_FreshEntryServedFromCache ==
  [][\A r \in Reqs :
       (variant = "cached" /\ CallStep(r)
          /\ FreshAt(CacheKey(req'[r].date), clock))
       => /\ req'[r].pc = "done"
          /\ req'[r].out = <<Send(200, apodCache[CacheKey(req'[r].date)].data)>>
          /\ upstreamCalls' = upstreamCalls
          /\ apodCache' = apodCache]_vars

\* a request was answered from an entry stored at an earlier clock value
C1_Witness ==
  \E r \in Reqs :
    /\ variant = "cached"
    /\ req[r].pc = "done"
    /\ req[r].via = "cache"
    /\ CacheKey(req[r].date) \in DOMAIN apodCache
    /\ apodCache[CacheKey(req[r].date)].fetchedAt < clock
    /\ Response(req[r]).body = apodCache[CacheKey(req[r].date)].data

(***************************************************************************)
(* C2: in the cached server, a call that finds a stale entry for its key   *)
(* (now - fetchedAt >= TTL) makes exactly one upstream call; when that     *)
(* call succeeds the entry is overwritten with the data just received  *)
(* (the request makes no further upstream call on the way), and            *)
(* the new entry passes the freshness test again, so that by C1 a call     *)
(* within the TTL of the new entry is served from the cache.               *)
(***************************************************************************)
C2_StaleEntryRefetchedOnce ==
  [][\A r \in Reqs :
       LET k == CacheKey(req'[r].date)
       IN  /\ (variant = "cached" /\ CallStep(r) /\ StaleAt(k, clock))
              => /\ upstreamCalls' = upstreamCalls + 1
                 /\ InFlight(req'[r])
                 /\ req'[r].found = "stale"
                 /\ apodCache' = apodCache
           /\ (variant = "cached" /\ InFlight(req[r]) /\ req[r].found = "stale"
                 /\ req'[r] # req[r])
              => /\ upstreamCalls' = upstreamCalls
                 /\ SuccessStep(r) =>
                      /\ k \in DOMAIN apodCache'
                      /\ apodCache'[k].data = Response(req'[r]).body
                      /\ apodCache'[k].fetchedAt = req[r].now
                      /\ \A t \in {i * TickMs : i \in 0..MaxTicks} :
                           (t >= req[r].now /\ t - req[r].now < 60 * 60 * 1000)
                           => t - apodCache'[k].fetchedAt < CACHE_TTL_MS]_vars

\* a stale entry was refreshed: the request that found it stale was answered
\* from upstream and the entry is fresh again
C2_Witness ==
  \E r \in Reqs :
    /\ variant = "cached"
    /\ req[r].pc = "done"
    /\ req[r].found = "stale"
    /\ req[r].via = "upstream"
    /\ FreshAt(CacheKey(req[r].date), clock)
    /\ apodCache[CacheKey(req[r].date)].fetchedAt >= 60 * 60 * 1000
    /\ apodCache[CacheKey(req[r].date)].data = Response(req[r]).body

(***************************************************************************)
(* C3: GET /space/apod/date with a well-formed date answers every failure  *)
(* of fetchApod with 400 when the upstream status was 400 and with 502     *)
(* for every other failure.                                                *)
(***************************************************************************)
C3_DateFailureIs400Or502 ==
  [][\A r \in Reqs :
       (FailureStep(r) /\ req[r].route = "date" /\ WellFormedDate(req[r].date))
       => /\ Len(req'[r].out) = 1
          /\ Response(req'[r]).status =
               IF req[r].pc = "text" /\ req[r].status = 400 THEN 400 ELSE 502]_vars

(***************************************************************************)
(* C4: GET /space/apod/today sends exactly one response; its status is 200 *)
(* when fetchApod succeeded and 502 when it failed, whatever the upstream  *)
(* status was.                                                             *)
(***************************************************************************)
C4_TodayIs200Or502 ==
  \A r \in Reqs :
    (req[r].pc = "done" /\ req[r].route = "today")
    => /\ Len(req[r].out) = 1
       /\ Response(req[r]).status =
            IF req[r].via \in {"cache", "upstream"} THEN 200 ELSE 502

(***************************************************************************)
(* C5: GET /space/apod/date with a missing date (both servers) or with a   *)
(* date that does not match YYYY-MM-DD (the cached server, which validates *)
(* the format) is answered 400 without entering fetchApod: no upstream     *)
(* call, the cache unchanged.                                              *)
(***************************************************************************)
C5_BadDateRejectedBeforeFetch ==
  [][\A r \in Reqs :
       (StartStep(r) /\ req'[r].route = "date"
          /\ \/ ~Truthy(req'[r].date)
             \/ variant = "cached" /\ ~WellFormedDate(req'[r].date))
       => /\ req'[r].pc = "done"
          /\ req'[r].via = "route"
          /\ Len(req'[r].out) = 1
          /\ Response(req'[r]).status = 400
          /\ upstreamCalls' = upstreamCalls
          /\ apodCache' = apodCache]_vars

\* a date with a trailing character was rejected by the cached server while
\* the cache held an entry
C5_Witness ==
  \E r \in Reqs :
    /\ variant = "cached"
    /\ req[r].pc = "done"
    /\ req[r].via = "route"
    /\ req[r].date = Str(DateTrail)
    /\ Response(req[r]).status = 400
    /\ DOMAIN apodCache # {}

(***************************************************************************)
(* C6: in the plain server, for every successful upstream payload of media *)
(* type image (an absent media_type included), hdImageUrl never ends in    *)
(* .gif in any letter case; when the upstream hdurl is animated,           *)
(* hdImageUrl equals imageUrl and gifUrl is the animated URL, otherwise    *)
(* gifUrl is null.                                                         *)
(***************************************************************************)
C6_HdImageUrlNeverAnimated ==
  \A r \in Reqs :
    (variant = "plain" /\ req[r].pc = "done" /\ req[r].via = "upstream"
       /\ Or(req[r].data.media_type, Str(IMAGE)) = Str(IMAGE))
    => LET body == Response(req[r]).body
       IN  /\ ~Animated(body.hdImageUrl)
           /\ Animated(req[r].data.hdurl)
                => body.hdImageUrl = body.imageUrl /\ body.gifUrl = req[r].data.hdurl
           /\ ~Animated(req[r].data.hdurl) => body.gifUrl = null

(***************************************************************************)
(* C7: in the plain server, the result for a payload whose media type is   *)
(* not image carries that mediaType and mediaUrl (the upstream url) and    *)
(* none of imageUrl, hdImageUrl, gifUrl; every result carries date, title, *)
(* explanation, copyright (null when absent) and source "nasa-apod".       *)
(***************************************************************************)
CommonFields == {"date", "title", "explanation", "copyright", "mediaType", "source"}

C7_NormalizedShape ==
  \A r \in Reqs :
    (variant = "plain" /\ req[r].pc = "done" /\ req[r].via = "upstream")
    => LET body == Response(req[r]).body
           data == req[r].data
       IN  /\ Response(req[r]).status = 200
           /\ CommonFields \subseteq DOMAIN body
           /\ body.date = data.date
           /\ body.title = data.title
           /\ body.explanation = data.explanation
           /\ body.copyright = IF data.copyright = undefined THEN null
                               ELSE data.copyright
           /\ body.source = Str(<<"nasa-apod">>)
           /\ (data.media_type \notin {undefined, Str(IMAGE)})
                => /\ body.mediaType = data.media_type
                   /\ DOMAIN body = CommonFields \cup {"mediaUrl"}
                   /\ body.mediaUrl = data.url
           /\ (data.media_type \in {undefined, Str(IMAGE)})
                => /\ body.mediaType = Str(IMAGE)
                   /\ DOMAIN body = CommonFields \cup {"imageUrl", "hdImageUrl", "gifUrl"}

\* a video payload without a copyright was normalised
C7_Witness ==
  \E r \in Reqs :
    /\ variant = "plain"
    /\ req[r].pc = "done"
    /\ req[r].via = "upstream"
    /\ req[r].data.media_type = Str(VIDEO)
    /\ req[r].data.copyright = undefined
    /\ Response(req[r]).body.copyright = null
    /\ Response(req[r]).body.mediaUrl = req[r].data.url

(***************************************************************************)
(* C8: in the cached server, a call that starts while another request for  *)
(* the same key is in flight and the key has no fresh entry makes its own  *)
(* upstream call (no coalescing), and every successful fetch overwrites    *)
(* the entry of its key with its own data, whatever entry is there: the    *)
(* entry is that of the request that completed last.                       *)
(***************************************************************************)
C8_NoCoalescingLastWriteWins ==
  [][\A r \in Reqs :
       /\ \A q \in Reqs \ {r} :
            (variant = "cached" /\ CallStep(r) /\ InFlight(req[q])
               /\ CacheKey(req[q].date) = CacheKey(req'[r].date)
               /\ ~FreshAt(CacheKey(req'[r].date), clock))
            => /\ upstreamCalls' = upstreamCalls + 1
               /\ InFlight(req'[r])
               /\ req'[q] = req[q]
       /\ (variant = "cached" /\ SuccessStep(r))
            => apodCache' =
                 [k \in DOMAIN apodCache \cup {CacheKey(req[r].date)} |->
                    IF k = CacheKey(req[r].date)
                    THEN [data |-> Response(req'[r]).body, fetchedAt |-> req[r].now]
                    ELSE apodCache[k]]]_vars

\* two requests for the same key both found no entry, so they overlapped;
\* both succeeded with different data, and the entry holds the data of one
C8_Witness ==
  \E r, q \in Reqs :
    /\ variant = "cached"
    /\ r # q
    /\ req[r].pc = "done" /\ req[q].pc = "done"
    /\ req[r].via = "upstream" /\ req[q].via = "upstream"
    /\ req[r].found = "absent" /\ req[q].found = "absent"
    /\ CacheKey(req[r].date) = CacheKey(req[q].date)
    /\ Response(req[r]).body # Response(req[q]).body
    /\ apodCache[CacheKey(req[r].date)].data = Response(req[r]).body
    /\ upstreamCalls = 2

(***************************************************************************)
(* C9 as stated: the entry written by a successful fetch has fetchedAt     *)
(* equal to the clock value at the moment it is stored, and an entry       *)
(* served as fresh was stored less than a TTL ago.                         *)
(***************************************************************************)
C9_FetchedAtIsStoreTime ==
  [][\A r \in Reqs :
       /\ (variant = "cached" /\ SuccessStep(r))
            => apodCache'[CacheKey(req[r].date)].fetchedAt = clock
       /\ (variant = "cached" /\ CallStep(r) /\ req'[r].via = "cache")
            => clock - storedAt[CacheKey(req'[r].date)] < 60 * 60 * 1000]_vars

(***************************************************************************)
(* C9 amended: the entry written by a successful fetch has fetchedAt equal *)
(* to the clock value read when the call entered fetchApod, before the     *)
(* upstream request; that value is never later than the moment the entry   *)
(* is stored, so an entry served as fresh was stored less than a TTL ago.  *)
(***************************************************************************)
C9_FetchedAtIsCallTime ==
  [][\A r \in Reqs :
       /\ (variant = "cached" /\ CallStep(r) /\ InFlight(req'[r]))
            => req'[r].now = clock
       /\ (variant = "cached" /\ SuccessStep(r))
            => /\ apodCache'[CacheKey(req[r].date)].fetchedAt = req[r].now
               /\ apodCache'[CacheKey(req[r].date)].fetchedAt <= clock
               /\ storedAt'[CacheKey(req[r].date)] = clock
       /\ (variant = "cached" /\ CallStep(r) /\ req'[r].via = "cache")
            => clock - storedAt[CacheKey(req'[r].date)] < 60 * 60 * 1000]_vars

\* an entry was stored later than its fetchedAt says
C9_Witness ==
  \E k \in DOMAIN apodCache :
    /\ variant = "cached"
    /\ apodCache[k].fetchedAt < storedAt[k]
    /\ \E r \in Reqs : req[r].pc = "done" /\ req[r].via = "cache"
                       /\ CacheKey(req[r].date) = k

(***************************************************************************)
(* C10: in the cached server the cache is written only by a successful     *)
(* fetch: a failing call leaves the whole map unchanged (a stale entry     *)
(* survives), a step changes at most the entry of the key of the request   *)
(* that succeeds in it, no key ever leaves the map, and every key in the   *)
(* map is one for which an upstream call succeeded.                        *)
(***************************************************************************)
C10_CacheWrittenOnlyOnSuccess ==
  /\ [](DOMAIN apodCache \subseteq DOMAIN storedAt)
  /\ [][/\ \A r \in Reqs :
            (variant = "cached" /\ FailureStep(r)) => apodCache' = apodCache
        /\ DOMAIN apodCache \subseteq DOMAIN apodCache'
        /\ \A k \in DOMAIN apodCache' :
             (k \notin DOMAIN apodCache \/ apodCache'[k] # apodCache[k])
             => \E r \in Reqs : SuccessStep(r) /\ CacheKey(req[r].date) = k]_vars

\* a refresh of a stale entry failed and the stale entry is still there
C10_Witness ==
  \E r \in Reqs :
    /\ variant = "cached"
    /\ req[r].pc = "done"
    /\ req[r].via = "error"
    /\ req[r].found = "stale"
    /\ StaleAt(CacheKey(req[r].date), clock)
====
